---------------------------- MODULE Spec2Model ----------------------------
(***************************************************************************)
(* Model of src/src/index.ts: the MercadoPago MCP server.                  *)
(*                                                                         *)
(* The state is the AuthService token cache, the server's request counter  *)
(* and, per call-tool invocation, the position of its handler, the axios   *)
(* request config of its one outbound call (__isRetry, Authorization       *)
(* header), what it wrote to the logger and the value it resolved with.    *)
(*                                                                         *)
(* Node runs one task at a time: an action below is the code that runs     *)
(* between two network suspensions of one invocation (the awaited POST to  *)
(* the identity endpoint, line 101, and the awaited API call, lines 412,   *)
(* 438, 465, 492).  Promise continuations queued by one I/O event run to   *)
(* the next network suspension before the next I/O event is handled.       *)
(***************************************************************************)
EXTENDS Integers, Sequences, FiniteSets, TLC

VARIABLES
    accessToken,    \* AuthService.accessToken (line 89); NoToken is null
    requestCount,   \* DemoMercadoPagoServer.requestCount (line 142)
    exchangeCount,  \* POSTs issued to the identity endpoint so far (line 101)
    inv,            \* per invocation: the call-tool handler's frame (line 334)
    digest          \* the result formatter of handleSearchDocumentation run
                    \* on its own: its input and its output (lines 524-547)

vars == <<accessToken, requestCount, exchangeCount, inv, digest>>

---------------------------------------------------------------------------
\* Bounds of the model.

\* Number of call-tool requests the client sends.
MaxRequests == 2

\* Longest array of search results given to the result formatter.
MaxResults == 3

Invocations == 1..MaxRequests

---------------------------------------------------------------------------
\* JavaScript values that reach the argument checks.

Undef == [t |-> "undefined", s |-> "", n |-> 0]
Str(x) == [t |-> "string", s |-> x, n |-> 0]
Num(x) == [t |-> "number", s |-> "", n |-> x]

\* typeof v === 'string' (line 404)
IsString(v) == v.t = "string"

\* typeof v === 'number' (line 406)
IsNumber(v) == v.t = "number"

\* JavaScript truthiness of a value, as used by && and || (lines 403, 405, 499)
Truthy(v) ==
    \/ v.t = "string" /\ v.s # ""
    \/ v.t = "number" /\ v.n # 0

\* this.accessToken = null (lines 89, 132)
NoToken == 0

\* HTTP 401 (line 234)
Unauthorized == 401

\* An AxiosError without a response: error.response?.status is undefined (line 228)
NoResponse == 0

\* limit bounds of isSearchDocumentationArgs (line 406)
MinLimit == 1
MaxLimit == 100

\* VALID_SITES (lines 151-153)
VALID_SITES == {"MLA", "MLB", "MLM", "MLU", "MLC", "MCO", "MPE"}

\* ['es', 'pt'] (line 403)
VALID_LANGUAGES == {"es", "pt"}

\* The tool names the call-tool handler dispatches on (lines 339, 348, 354, 360)
RegisteredTools ==
    {"search_documentation", "payments_methods", "document_types", "create_customer"}

---------------------------------------------------------------------------
\* Inputs: tool names and arguments a client may send.

ToolNames == RegisteredTools \cup {"refund_payment", "document_type"}

Args(language, query, siteId, limit, email) ==
    [language |-> language, query |-> query, siteId |-> siteId,
     limit |-> limit, email |-> email]

\* request.params.arguments absent or {} : every property reads undefined
NoArgs == Args(Undef, Undef, Undef, Undef, Undef)

Languages == {Str("es"), Str("pt"), Str("en"), Str(""), Undef}
Queries == {Str("checkout"), Num(7), Undef}
SiteIds == {Str("MLA"), Str("XXX"), Undef}
Limits == {Undef, Num(0), Num(1), Num(100), Num(101), Str("10")}
Emails == {Str("a@b.c"), Num(7), Undef}

\* search_documentation arguments: one well-formed request with each
\* property varied over its whole domain, and the requests wrong in two places.
SearchInputs ==
    {Args(l, Str("checkout"), Str("MLA"), Undef, Undef) : l \in Languages}
    \cup {Args(Str("es"), q, Str("MLA"), Undef, Undef) : q \in Queries}
    \cup {Args(Str("es"), Str("checkout"), s, Undef, Undef) : s \in SiteIds}
    \cup {Args(Str("es"), Str("checkout"), Str("MLA"), n, Undef) : n \in Limits}
    \cup {Args(Str("en"), Str("checkout"), Str("XXX"), n, Undef) : n \in {Undef, Num(101)}}

\* The arguments tried for each tool when calls are made one after another.
InputsOf(name) ==
    CASE name = "search_documentation" -> SearchInputs
      [] name = "create_customer" ->
            {Args(Undef, Undef, Undef, Undef, e) : e \in Emails}
      [] OTHER -> {NoArgs}

\* The requests tried when calls overlap: a tool whose handler answers a
\* failure with isError, one whose handler answers it with a fallback text,
\* a request the argument check rejects and an unknown tool.
OverlapToolNames == {"search_documentation", "document_types", "refund_payment"}

OverlapInputsOf(name) ==
    CASE name = "search_documentation" ->
            {Args(Str("es"), Str("checkout"), Str("MLA"), n, Undef) : n \in {Undef, Num(101)}}
      [] OTHER -> {NoArgs}

---------------------------------------------------------------------------
\* What the upstream endpoints may answer.

\* Status of an API answer; NoResponse is a network failure.
Statuses == {200, Unauthorized, 500, NoResponse}

\* axios' default validateStatus: 2xx resolves, anything else rejects
IsSuccess(status) == status >= 200 /\ status < 300

\* Shape of a 2xx body (response.data): null, a JSON object, [], an array of
\* records, an array holding a null.
DataShapes == {"null", "object", "emptyArray", "array", "arrayWithNull"}

---------------------------------------------------------------------------
\* Logger (lines 20-41) and console.log.  An entry <<level, message>> is a
\* call of that logger method; a debug entry reaches stderr only when
\* process.env.DEBUG is set (lines 36-40), the others always do.

\* logger.debug (lines 36-40)
Debug(messages) == {<<"debug", m>> : m \in messages}

\* logger.error (lines 32-34)
Error(messages) == {<<"error", m>> : m \in messages}

\* logger.info (lines 28-30)
Info(messages) == {<<"info", m>> : m \in messages}

\* console.log(e) in the handlers' catch blocks (lines 424, 451, 478); the
\* message is the error printed
Console(messages) == {<<"console", m>> : m \in messages}

\* The credentials the text written for a log entry contains.
\*   - 'Failed to obtain OAuth token' (line 120) is written with { error },
\*     the AxiosError of the token request: JSON.stringify takes its toJSON(),
\*     which carries config, so the headers of the token request and its body
\*     with client_secret (lines 103-107) are written.
\*   - console.log(e) of the AxiosError of an API call prints e.config, with
\*     the headers of the request and the Authorization the auth interceptor
\*     put there (line 199).
\*   - every other entry is written with fields picked one by one (lines
\*     205-210, 217-221, 225-231, 373-380), none of them a credential.
Discloses(entry) ==
    IF entry = <<"error", "Failed to obtain OAuth token">>
    THEN {"client_secret", "headers"}
    ELSE IF entry = <<"console", "AxiosError">>
    THEN {"token", "headers"}
    ELSE {}

---------------------------------------------------------------------------
\* What an invocation resolves with.

NoResult == [kind |-> "none", code |-> "", isError |-> FALSE, text |-> "", attempt |-> 0]

\* { content: [{ type: 'text', text }], isError? }; attempt is the attempt
\* whose response the text was formatted from (0: none).
ToolResponse(text, isError, attempt) ==
    [kind |-> "ToolResponse", code |-> "", isError |-> isError, text |-> text,
     attempt |-> attempt]

\* A McpError rejecting the request handler (lines 345, 368, 395)
McpError(code, message) ==
    [kind |-> "McpError", code |-> code, isError |-> FALSE, text |-> message,
     attempt |-> 0]

\* The awaited API call of a handler (lines 412, 438, 465, 492): pending, or
\* what it settled with.
Pending == [state |-> "pending", status |-> NoResponse, code |-> ""]

\* The frame of an invocation:
\*   pc         idle, exchanging (awaiting the identity endpoint), sent
\*              (awaiting the API), done (the handler returned or threw)
\*   requestId  the number in context.requestId, `req_${n}` (line 253)
\*   name, args request.params.name, request.params.arguments
\*   isRetry    config.__isRetry of the outbound call (lines 15, 239)
\*   attempts   the API requests sent: Authorization token, answer's status,
\*              config.__isRetry when sent
\*   exchanges  the token exchanges this call issued: number, config.__isRetry
\*              when issued, state (pending, ok, failed)
\*   clears     calls of authService.clearToken() made for this call (line 238)
\*   logs       logger and console calls made for this invocation
\*   settled    what the awaited API call settled with
\*   result     what the call-tool handler resolved or rejected with
Idle ==
    [pc |-> "idle", requestId |-> 0, name |-> "", args |-> NoArgs, isRetry |-> FALSE,
     attempts |-> <<>>, exchanges |-> <<>>, clears |-> 0, logs |-> {},
     settled |-> Pending, result |-> NoResult]

---------------------------------------------------------------------------
\* Errors a promise may reject with.  axios is axios.isAxiosError(error);
\* code is the McpError code ("" when the error is not a McpError).

AxiosErr(status) == [axios |-> TRUE, code |-> "", status |-> status, message |-> "AxiosError"]

\* A TypeError raised by reading a property of null or calling a non-function
TypeErr == [axios |-> FALSE, code |-> "", status |-> NoResponse, message |-> "TypeError"]

\* new McpError(code, message) (lines 122, 146, 345, 368, 506)
McpErr(code, message) == [axios |-> FALSE, code |-> code, status |-> NoResponse, message |-> message]

\* What awaiting this.api.get / this.api.post gives the handler.
Resolved(status, data) == [ok |-> TRUE, status |-> status, data |-> data, err |-> TypeErr]
Rejected(err) == [ok |-> FALSE, status |-> err.status, data |-> "null", err |-> err]

---------------------------------------------------------------------------
\* Argument checks and routing of the call-tool handler.

\* The inputSchema each tool declares in the list-tools answer (lines
\* 268-331): required properties, their types, enums and numeric bounds.
SchemaValid(name, a) ==
    CASE name = "create_customer" -> IsString(a.email)
      [] name = "search_documentation" ->
            /\ IsString(a.language) /\ a.language.s \in {"es", "pt"}
            /\ IsString(a.query)
            /\ IsString(a.siteId)
            /\ a.siteId.s \in {"MLB", "MLM", "MLA", "MLU", "MLC", "MCO", "MPE"}
            /\ \/ a.limit.t = "undefined"
               \/ IsNumber(a.limit) /\ a.limit.n >= 1 /\ a.limit.n <= 100
      [] OTHER -> TRUE

\* Fault: the limit check forgets the upper bound.
isSearchDocumentationArgsNoMaximum(a) ==
    /\ Truthy(a.language) /\ IsString(a.language) /\ a.language.s \in VALID_LANGUAGES
    /\ IsString(a.query)
    /\ Truthy(a.siteId) /\ IsString(a.siteId) /\ a.siteId.s \in VALID_SITES
    /\ \/ a.limit.t = "undefined"
       \/ IsNumber(a.limit) /\ a.limit.n >= MinLimit

\* isSearchDocumentationArgs (lines 400-408)
isSearchDocumentationArgs(a) ==
    LET validLanguage ==
            Truthy(a.language) /\ IsString(a.language) /\ a.language.s \in VALID_LANGUAGES
        validQuery == IsString(a.query)
        validSiteId ==
            Truthy(a.siteId) /\ IsString(a.siteId) /\ a.siteId.s \in VALID_SITES
        validLimit ==
            \/ a.limit.t = "undefined"
            \/ IsNumber(a.limit) /\ a.limit.n >= MinLimit /\ a.limit.n <= MaxLimit
    IN  validLanguage /\ validQuery /\ validSiteId /\ validLimit

\* Fault: the last branch is taken for every remaining name.
RouteWithoutNotFound(name, args) ==
    IF name = "search_documentation"
    THEN IF isSearchDocumentationArgs(args) THEN "handleSearchDocumentation"
         ELSE "InvalidParams"
    ELSE IF name = "payments_methods" THEN "handlePaymentsMethods"
    ELSE IF name = "document_types" THEN "handleDocumentTypes"
    ELSE "handleCreateCustomer"

\* The branch the call-tool handler takes (lines 339-371): the name of the
\* handler it awaits, or the McpError code it throws.
Route(name, args) ==
    IF name = "search_documentation"
    THEN IF isSearchDocumentationArgs(args) THEN "handleSearchDocumentation"
         ELSE "InvalidParams"
    ELSE IF name = "payments_methods" THEN "handlePaymentsMethods"
    ELSE IF name = "document_types" THEN "handleDocumentTypes"
    ELSE IF name = "create_customer" THEN "handleCreateCustomer"
    ELSE "MethodNotFound"

Handlers ==
    {"handleSearchDocumentation", "handlePaymentsMethods", "handleDocumentTypes",
     "handleCreateCustomer"}

---------------------------------------------------------------------------
\* The tool handlers, from the point where the awaited API call settles with
\* outcome o; k is the number of the attempt that settled it.  Each gives
\* [threw, err, result, logs]: whether the handler rejects, and with what.

Returns(result, logs) == [threw |-> FALSE, err |-> TypeErr, result |-> result, logs |-> logs]
Throws(err, logs) == [threw |-> TRUE, err |-> err, result |-> NoResult, logs |-> logs]

\* handleCreateCustomer (lines 410-434): response.data.user_id throws on null
handleCreateCustomer(o, k) ==
    IF o.ok /\ o.data # "null"
    THEN Returns(ToolResponse("Customer created successfully with id", FALSE, k), {})
    ELSE Returns(ToolResponse("No document types found. Try again later.", FALSE, 0),
                 Console({o.err.message}))

\* response.data.map(...) with a callback reading method.name (lines 439-441,
\* 466-468): throws unless data is an array without null entries
Mappable(data) == data \in {"emptyArray", "array"}

\* Fault: handleDocumentTypes without its try/catch.
handleDocumentTypesUncaught(o, k) ==
    IF ~o.ok THEN Throws(o.err, {})
    ELSE IF Mappable(o.data) THEN Returns(ToolResponse("document types", FALSE, k), {})
    ELSE Throws(TypeErr, {})

\* handleDocumentTypes (lines 436-461)
handleDocumentTypes(o, k) ==
    IF o.ok /\ Mappable(o.data)
    THEN Returns(ToolResponse("document types", FALSE, k), {})
    ELSE Returns(ToolResponse("No document types found. Try again later.", FALSE, 0),
                 Console({o.err.message}))

\* handlePaymentsMethods (lines 463-488)
handlePaymentsMethods(o, k) ==
    IF o.ok /\ Mappable(o.data)
    THEN Returns(ToolResponse("payment methods", FALSE, k), {})
    ELSE Returns(ToolResponse("No payments found. Try again later.", FALSE, 0),
                 Console({o.err.message}))

\* handleSearchDocumentation (lines 490-570)
handleSearchDocumentation(o, k) ==
    IF ~o.ok
    THEN Returns(ToolResponse("Error searching documentation", TRUE, 0), {})
    ELSE IF o.data \in {"null", "object"}          \* lines 505-510, caught at 558
    THEN Returns(ToolResponse("Error searching documentation", TRUE, 0), {})
    ELSE IF o.data = "emptyArray"                  \* lines 512-521
    THEN Returns(ToolResponse("No documentation found for query", FALSE, k), {})
    ELSE IF o.data = "arrayWithNull"               \* result.title of null, caught at 558
    THEN Returns(ToolResponse("Error searching documentation", TRUE, 0), {})
    ELSE Returns(ToolResponse("Search Results for", FALSE, k), {})

\* The handler the route names, applied to the settled API call.
RunHandler(route, o, k) ==
    CASE route = "handleSearchDocumentation" -> handleSearchDocumentation(o, k)
      [] route = "handlePaymentsMethods" -> handlePaymentsMethods(o, k)
      [] route = "handleDocumentTypes" -> handleDocumentTypes(o, k)
      [] OTHER -> handleCreateCustomer(o, k)

---------------------------------------------------------------------------
\* The call-tool handler around the tool handler.

\* catch (lines 372-396): log, turn an AxiosError into a ToolResponse, rethrow
\* anything else.  The protocol layer answers a rethrown error with its code,
\* or InternalError when it has none.
DispatchCatch(r, err) ==
    [r EXCEPT
        !.pc = "done",
        !.logs = @ \cup Error({"Tool execution failed"}),
        !.result =
            IF err.axios THEN ToolResponse("MercadoPago API error", TRUE, 0)
            ELSE McpError(IF err.code # "" THEN err.code ELSE "InternalError", err.message)]

\* const result = await handler; this.logRequestEnd(context); return result
\* (lines 341-343, 349-351, 355-357, 361-363; logRequestEnd lines 258-264)
Settle(r, o) ==
    LET h == RunHandler(Route(r.name, r.args), o, Len(r.attempts))
        r1 == [r EXCEPT
                !.logs = @ \cup h.logs,
                !.settled = [state |-> IF o.ok THEN "resolved" ELSE "rejected",
                             status |-> o.status,
                             code |-> IF o.ok THEN "" ELSE o.err.code]]
    IN  IF h.threw THEN DispatchCatch(r1, h.err)
        ELSE [r1 EXCEPT
                !.pc = "done",
                !.result = h.result,
                !.logs = @ \cup Debug({"Tool execution completed"})]

---------------------------------------------------------------------------
\* AuthService and the request interceptors.

\* Faults of the cache test: one that never finds the token, one that takes
\* the cleared cache for a token.
TokenCachedNever(cache) == FALSE
TokenCachedAlways(cache) == TRUE

\* if (this.accessToken) return this.accessToken (line 97)
TokenCached(cache) == cache # NoToken

\* Fault: the auth interceptor leaves an Authorization header that is already
\* on the config in place, so a re-issued call is sent with the token it had.
RequestKeepsHeader(r, cache, id) ==
    IF r.attempts # <<>> \/ cache # NoToken
    THEN [r EXCEPT
            !.pc = "sent",
            !.attempts = Append(@, [token |-> IF r.attempts # <<>>
                                              THEN r.attempts[Len(r.attempts)].token
                                              ELSE cache,
                                    status |-> NoResponse, retry |-> r.isRetry]),
            !.logs = @ \cup Debug({"API Request"})]
    ELSE [r EXCEPT
            !.pc = "exchanging",
            !.exchanges = Append(@, [id |-> id, retry |-> r.isRetry, state |-> "pending"]),
            !.logs = @ \cup Debug({"API Request", "Requesting OAuth token"})]

\* this.api(config) up to its first network suspension.  axios runs request
\* interceptors last-registered first: the request log (lines 204-212), then
\* the auth interceptor (lines 197-201), which awaits getAccessToken (lines
\* 96-114).  With a cached token the request is sent with it; otherwise the
\* POST to the identity endpoint is issued as exchange number id.
Request(r, cache, id) ==
    IF TokenCached(cache)
    THEN [r EXCEPT
            !.pc = "sent",
            !.attempts = Append(@, [token |-> cache, status |-> NoResponse, retry |-> r.isRetry]),
            !.logs = @ \cup Debug({"API Request"})]
    ELSE [r EXCEPT
            !.pc = "exchanging",
            !.exchanges = Append(@, [id |-> id, retry |-> r.isRetry, state |-> "pending"]),
            !.logs = @ \cup Debug({"API Request", "Requesting OAuth token"})]

\* Exchanges issued once Request has run.
ExchangesAfter(cache, n) == IF TokenCached(cache) THEN n ELSE n + 1

\* Fault: clearToken leaves the cached token in place.
clearTokenKeeps == accessToken

\* authService.clearToken(): this.accessToken = null (lines 131-133, 238)
clearToken == NoToken

\* Fault: the retry test forgets config.__isRetry.
ShouldRetryIgnoringFlag(status, isRetry) == status = Unauthorized

\* Fault: the response error handler re-issues after any failure.
ShouldRetryAnyFailure(status, isRetry) == ~isRetry

\* Fault: one retried flag for the whole client instead of one per config.
ShouldRetryShared(status, isRetry) ==
    status = Unauthorized /\ \A j \in Invocations : ~inv[j].isRetry

\* error.response?.status === 401 && error.config, !config.__isRetry (lines 234-236)
ShouldRetry(status, isRetry) == status = Unauthorized /\ ~isRetry

---------------------------------------------------------------------------
\* The result formatter of handleSearchDocumentation (lines 524-547).  A text
\* is the sequence of its pieces: the block of a result, or the horizontal
\* rule '\n\n---\n\n' the blocks are joined with.

\* result.title and result.content as the search endpoint may send them
Titles == {Undef, Str(""), Str("Checkout Pro")}
Contents == {Undef, Str(""), Str("How to integrate")}

SearchResults == [title : Titles, content : Contents]

\* Non-empty arrays of results (an empty one returns at lines 512-521)
ResultArrays == UNION {[1..n -> SearchResults] : n \in 1..MaxResults}

\* `## ${title}\n${content}\n\n... [Read more](${url})\n\nScore: ${score}\n` (lines 536-541)
Block(title, content) == [kind |-> "block", title |-> title, content |-> content]

\* return null (line 527)
Null == [kind |-> "null", title |-> "", content |-> ""]

\* The separator given to join (line 542)
Rule == [kind |-> "rule", title |-> "", content |-> ""]

\* The callback of results.map (lines 524-541)
FormatResult(result) ==
    IF ~Truthy(result.title) /\ ~Truthy(result.content)
    THEN Null
    ELSE Block(IF Truthy(result.title) THEN result.title.s ELSE "Untitled",
               IF Truthy(result.content) THEN result.content.s
               ELSE "No description available")

\* Array.prototype.join converts each element to a string, null and
\* undefined to the empty string, and puts the separator between every two
\* elements of the array.
ElementText(element) == IF element = Null THEN <<>> ELSE <<element>>

RECURSIVE Join(_)
Join(elements) ==
    IF elements = <<>> THEN <<>>
    ELSE IF Len(elements) = 1 THEN ElementText(elements[1])
    ELSE ElementText(elements[1]) \o <<Rule>> \o Join(Tail(elements))

\* results.map(...).join('\n\n---\n\n') (lines 524-542)
Markdown(results) == Join([k \in 1..Len(results) |-> FormatResult(results[k])])

\* The formatter's frame: the array it is given, whether it ran, the count
\* in 'Showing ${results.length} results' (line 545) and the joined text.
NoDigest == [results |-> <<>>, formatted |-> FALSE, showing |-> 0, markdown |-> <<>>]

---------------------------------------------------------------------------
\* Initial state: the server constructed (lines 165-193), nothing received.

Init ==
    /\ accessToken = NoToken
    /\ requestCount = 0
    /\ exchangeCount = 0
    /\ inv = [i \in Invocations |-> Idle]
    /\ digest = NoDigest

\* Fault: createRequestContext numbers the request without counting it.
createRequestContextUncounted(count) == count

\* createRequestContext (lines 249-256): this.requestCount++, and the new
\* count is the number in requestId
createRequestContext(count) == count + 1

\* Every invocation received so far has returned.
Quiescent == \A j \in Invocations : inv[j].pc \in {"idle", "done"}

---------------------------------------------------------------------------
\* Actions.

\* The call-tool request handler, from the request's arrival to its first
\* network suspension or to its end (lines 334-397): createRequestContext
\* (lines 249-256), the 'Tool invoked' log, routing, and for a routed call
\* the outbound request up to the token exchange or the API request.
Receive(name, args) ==
    LET i == Cardinality({j \in Invocations : inv[j].pc # "idle"}) + 1
        id == createRequestContext(requestCount)
        r == [Idle EXCEPT !.requestId = id, !.name = name, !.args = args,
                          !.logs = Info({"Tool invoked"})]
        route == Route(name, args)
    IN  /\ i <= MaxRequests
        /\ requestCount' = id
        /\ IF route \in Handlers
           THEN /\ inv' = [inv EXCEPT
                            ![i] = Request(r, accessToken, exchangeCount + 1)]
                /\ exchangeCount' = ExchangesAfter(accessToken, exchangeCount)
           ELSE /\ inv' = [inv EXCEPT
                            ![i] = DispatchCatch(r, McpErr(route, "rejected"))]
                /\ UNCHANGED exchangeCount
        /\ UNCHANGED <<accessToken, digest>>

\* A client sends a call-tool request while others may be in flight.
CallTool ==
    \E name \in OverlapToolNames : \E args \in OverlapInputsOf(name) : Receive(name, args)

\* A client sends a call-tool request once every earlier one was answered.
CallToolSeq ==
    /\ Quiescent
    /\ \E name \in ToolNames : \E args \in InputsOf(name) : Receive(name, args)

\* The identity endpoint answers 2xx: getAccessToken caches and returns the
\* token (lines 116-118), the auth interceptor sets the header (lines
\* 199-200) and the API request is sent.
ExchangeResolved(i) ==
    LET r == inv[i]
        n == Len(r.exchanges)
        token == r.exchanges[n].id
    IN  /\ r.pc = "exchanging"
        /\ accessToken' = token
        /\ inv' = [inv EXCEPT ![i] =
                [r EXCEPT
                    !.pc = "sent",
                    !.exchanges[n].state = "ok",
                    !.attempts = Append(@, [token |-> token, status |-> NoResponse,
                                            retry |-> r.isRetry]),
                    !.logs = @ \cup Debug({"OAuth token obtained"})]]
        /\ UNCHANGED <<requestCount, exchangeCount, digest>>

\* Fault: getAccessToken answers a failed exchange by issuing it again.
ExchangeRejectedReissues(i) ==
    LET r == inv[i]
        n == Len(r.exchanges)
        r1 == [r EXCEPT !.exchanges[n].state = "failed",
                        !.logs = @ \cup Error({"Failed to obtain OAuth token"})]
    IN  /\ r.pc = "exchanging"
        /\ inv' = [inv EXCEPT ![i] = Request(r1, NoToken, exchangeCount + 1)]
        /\ exchangeCount' = exchangeCount + 1
        /\ UNCHANGED <<accessToken, requestCount, digest>>

\* The identity endpoint fails: getAccessToken logs and throws a McpError
\* (lines 119-128); the rejection of the request interceptor reaches the
\* response error handler, which logs it and rethrows it as it carries no
\* 401 (lines 224-244); the tool handler's awaited call rejects.
ExchangeRejected(i) ==
    LET r == inv[i]
        n == Len(r.exchanges)
        r1 == [r EXCEPT !.exchanges[n].state = "failed",
                        !.logs = @ \cup Error({"Failed to obtain OAuth token", "API Error"})]
    IN  /\ r.pc = "exchanging"
        /\ inv' = [inv EXCEPT ![i] =
                Settle(r1, Rejected(McpErr("InternalError", "MercadoPago Auth error")))]
        /\ UNCHANGED <<accessToken, requestCount, exchangeCount, digest>>

\* The API answers 2xx with a body of shape data: the response interceptor
\* logs and passes it on (lines 216-223) and the tool handler continues.
ResponseFulfilled(i, status, data) ==
    LET r == inv[i]
        n == Len(r.attempts)
        r1 == [r EXCEPT !.attempts[n].status = status,
                        !.logs = @ \cup Debug({"API Response"})]
    IN  /\ r.pc = "sent"
        /\ IsSuccess(status)
        /\ inv' = [inv EXCEPT ![i] = Settle(r1, Resolved(status, data))]
        /\ UNCHANGED <<accessToken, requestCount, exchangeCount, digest>>

\* The API call fails with a status outside 2xx or without a response: the
\* response error handler (lines 224-245) logs, then on a first 401 clears
\* the token, marks the config and re-issues the call, which runs to its own
\* first suspension; otherwise it rethrows and the tool handler's awaited
\* call rejects.
ResponseRejected(i, status) ==
    LET r == inv[i]
        n == Len(r.attempts)
        r1 == [r EXCEPT !.attempts[n].status = status,
                        !.logs = @ \cup Error({"API Error"})]
    IN  /\ r.pc = "sent"
        /\ ~IsSuccess(status)
        /\ IF ShouldRetry(status, r.isRetry)
           THEN LET r2 == [r1 EXCEPT
                            !.logs = @ \cup Debug({"Auth token expired, retrying request"}),
                            !.clears = @ + 1,
                            !.isRetry = TRUE]
                IN  /\ accessToken' = clearToken
                    /\ inv' = [inv EXCEPT
                                ![i] = Request(r2, accessToken', exchangeCount + 1)]
                    /\ exchangeCount' = ExchangesAfter(accessToken', exchangeCount)
           ELSE /\ inv' = [inv EXCEPT
                            ![i] = Settle(r1, Rejected(AxiosErr(status)))]
                /\ UNCHANGED <<accessToken, exchangeCount>>
        /\ UNCHANGED <<requestCount, digest>>

Upstream ==
    \/ \E i \in Invocations : ExchangeResolved(i)
    \/ \E i \in Invocations : ExchangeRejected(i)
    \/ \E i \in Invocations : \E status \in Statuses : \E data \in DataShapes :
            ResponseFulfilled(i, status, data)
    \/ \E i \in Invocations : \E status \in Statuses : ResponseRejected(i, status)

Next == CallTool \/ Upstream

\* Any number of tool calls in flight at once.
Spec == Init /\ [][Next]_vars

NextSeq == CallToolSeq \/ Upstream

\* Tool calls executed one after another.
SpecSeq == Init /\ [][NextSeq]_vars

\* The upstream of the expired-token race: the token of the first exchange
\* has expired, so the API answers 401 to every attempt that carries it; the
\* identity endpoint answers every exchange, with a token the API accepts.
ExpiredTokens == {1}

RaceAnswer(i) ==
    \/ ExchangeResolved(i)
    \/ /\ inv[i].pc = "sent"
       /\ inv[i].attempts[Len(inv[i].attempts)].token \in ExpiredTokens
       /\ ResponseRejected(i, Unauthorized)
    \/ /\ inv[i].pc = "sent"
       /\ inv[i].attempts[Len(inv[i].attempts)].token \notin ExpiredTokens
       /\ \E data \in DataShapes : ResponseFulfilled(i, 200, data)

UpstreamRace == \E i \in Invocations : RaceAnswer(i)

NextRace == CallTool \/ UpstreamRace

\* Every request that was issued is eventually answered.
SpecRace ==
    Init /\ [][NextRace]_vars /\ \A i \in Invocations : WF_vars(RaceAnswer(i))

\* A network call of invocation i never returns.  Neither the token request
\* (lines 101-114) nor the API client (lines 183-189) sets a timeout, so the
\* invocation stays suspended at its await.
Hang(i) ==
    /\ inv[i].pc \in {"exchanging", "sent"}
    /\ inv' = [inv EXCEPT ![i].pc = "hung"]
    /\ UNCHANGED <<accessToken, requestCount, exchangeCount, digest>>

\* Fault: invocations are served one at a time, so an answer is delivered
\* only once every earlier invocation has returned.
AnswerableInTurn(i) ==
    /\ inv[i].pc \in {"exchanging", "sent"}
    /\ \A j \in 1..(i - 1) : inv[j].pc \in {"idle", "done"}

\* The event loop runs the continuation of whichever invocation's network
\* call is answered: every handler awaits its own promise (lines 341, 349,
\* 355, 361) and nothing else.
Answerable(i) == inv[i].pc \in {"exchanging", "sent"}

\* The network call invocation i waits for is answered.
Answer(i) ==
    /\ Answerable(i)
    /\ \/ ExchangeResolved(i)
       \/ ExchangeRejected(i)
       \/ \E status \in Statuses : \E data \in DataShapes :
                ResponseFulfilled(i, status, data)
       \/ \E status \in Statuses : ResponseRejected(i, status)

NextHang ==
    \/ CallTool
    \/ \E i \in Invocations : Hang(i)
    \/ \E i \in Invocations : Answer(i)

\* Network calls may never return; one that does not hang is eventually
\* answered.
SpecHang ==
    Init /\ [][NextHang]_vars /\ \A i \in Invocations : WF_vars(Answer(i))

\* The result formatter on its own: it is given any non-empty array of
\* results and formats it.
InitDigest ==
    /\ accessToken = NoToken
    /\ requestCount = 0
    /\ exchangeCount = 0
    /\ inv = [i \in Invocations |-> Idle]
    /\ digest \in {[NoDigest EXCEPT !.results = results] : results \in ResultArrays}

\* lines 524-547
FormatDigest ==
    /\ ~digest.formatted
    /\ digest' = [digest EXCEPT
                    !.formatted = TRUE,
                    !.showing = Len(digest.results),
                    !.markdown = Markdown(digest.results)]
    /\ UNCHANGED <<accessToken, requestCount, exchangeCount, inv>>

NextDigest == FormatDigest

SpecDigest == InitDigest /\ [][NextDigest]_vars

---------------------------------------------------------------------------
\* Properties of the request pipeline.

\* The exchanges a call issued after its config was marked __isRetry.
RetryExchanges(r) == {k \in DOMAIN r.exchanges : r.exchanges[k].retry}

\* C1: a call whose first attempt is answered 401 and whose second attempt
\* is answered 2xx has cleared the token exactly once, has issued exactly one
\* token exchange for the retry, has sent exactly two attempts, the second
\* carrying the token of that exchange, and has ended with its awaited call
\* resolved with the second attempt's answer.
C1_OneClearOneExchangeOneRetry ==
    \A i \in Invocations :
        LET r == inv[i] IN
        (/\ Len(r.attempts) >= 2
         /\ r.attempts[1].status = 401
         /\ r.attempts[2].status >= 200 /\ r.attempts[2].status < 300)
        => /\ r.clears = 1
           /\ Cardinality(RetryExchanges(r)) = 1
           /\ \A k \in RetryExchanges(r) :
                r.exchanges[k].state = "ok" /\ r.attempts[2].token = r.exchanges[k].id
           /\ Len(r.attempts) = 2
           /\ r.pc = "done"
           /\ r.settled.state = "resolved"
           /\ r.settled.status = r.attempts[2].status

\* C1 witness: a call answered 401 then 200 has returned, while another call
\* was in flight.
C1_Witness ==
    \E i, j \in Invocations :
        /\ i # j
        /\ Len(inv[i].attempts) = 2
        /\ inv[i].attempts[1].status = 401
        /\ inv[i].attempts[2].status = 200
        /\ inv[i].pc = "done"
        /\ inv[j].pc \in {"exchanging", "sent"}

\* C2: no call is sent more than twice, and a call whose second attempt is
\* answered 401 has ended with its awaited call rejected with that 401.
C2_AtMostTwoAttempts ==
    \A i \in Invocations :
        LET r == inv[i] IN
        /\ Len(r.attempts) <= 2
        /\ (Len(r.attempts) = 2 /\ r.attempts[2].status = 401)
            => /\ r.pc = "done"
               /\ r.settled.state = "rejected"
               /\ r.settled.status = 401

\* C2 witness: a call answered 401 twice has returned.
C2_Witness ==
    \E i \in Invocations :
        /\ Len(inv[i].attempts) = 2
        /\ inv[i].attempts[1].status = 401
        /\ inv[i].attempts[2].status = 401
        /\ inv[i].pc = "done"

NoUnauthorized ==
    \A i \in Invocations : \A k \in DOMAIN inv[i].attempts :
        inv[i].attempts[k].status # 401

NoExchangeFailed ==
    \A i \in Invocations : \A k \in DOMAIN inv[i].exchanges :
        inv[i].exchanges[k].state # "failed"

\* C3: with calls made one after another, as long as no exchange has failed
\* and no API answer was a 401, at most one token exchange has been issued
\* and every attempt of every call carries the token of that exchange.
C3_TokenReuse ==
    (NoUnauthorized /\ NoExchangeFailed)
    => /\ exchangeCount <= 1
       /\ \A i \in Invocations : \A k \in DOMAIN inv[i].attempts :
            \E j \in Invocations :
                /\ Len(inv[j].exchanges) = 1
                /\ inv[j].exchanges[1].id = inv[i].attempts[k].token

\* C3 witness: two calls have returned after a 2xx answer each, and one
\* exchange was issued.
C3_Witness ==
    /\ requestCount >= 2
    /\ \A i \in 1..2 :
        /\ inv[i].pc = "done"
        /\ Len(inv[i].attempts) = 1
        /\ inv[i].attempts[1].status = 200
    /\ exchangeCount = 1

\* The attempt call i has in flight is answered 401 in this step.
Answered401(i) ==
    /\ inv[i].pc = "sent"
    /\ inv'[i].attempts[Len(inv[i].attempts)].status = 401

\* C4 as stated: every 401 answer, also one to an attempt that was already a
\* retry, leaves the token cache empty.
C4_EveryUnauthorizedClears ==
    [][\A i \in Invocations : Answered401(i) => accessToken' = NoToken]_vars

\* C4 amended: a 401 answer to an attempt that is not a retry leaves the
\* token cache empty; a 401 answer to a retry leaves the cache as it was.
C4_FirstUnauthorizedClears ==
    [][\A i \in Invocations :
        Answered401(i) =>
            IF inv[i].isRetry THEN accessToken' = accessToken
            ELSE accessToken' = NoToken]_vars

\* C4 witness: a call's retry was answered 401 and the cache still holds the
\* token the retry carried.
C4_Witness ==
    \E i \in Invocations :
        /\ Len(inv[i].attempts) = 2
        /\ inv[i].attempts[2].status = 401
        /\ accessToken = inv[i].attempts[2].token

---------------------------------------------------------------------------
\* Properties of the dispatcher and the tool handlers.

\* No token exchange and no API request was issued for invocation i.
NoNetwork(i) == inv[i].exchanges = <<>> /\ inv[i].attempts = <<>>

\* Invocation i was rejected with a McpError of the given code.
RejectedWith(i, code) ==
    /\ inv[i].pc = "done"
    /\ inv[i].result.kind = "McpError"
    /\ inv[i].result.code = code

\* C5: a request for a registered tool whose arguments do not satisfy the
\* tool's declared schema is rejected with a protocol error and issues no
\* token exchange and no API request.
C5_MalformedArgumentsRejected ==
    \A i \in Invocations :
        (/\ inv[i].pc # "idle"
         /\ inv[i].name \in RegisteredTools
         /\ ~SchemaValid(inv[i].name, inv[i].args))
        => /\ inv[i].pc = "done"
           /\ inv[i].result.kind = "McpError"
           /\ NoNetwork(i)

\* The cases of C6, on the arguments as received.
LimitOutside(a) == IsNumber(a.limit) /\ (a.limit.n < 1 \/ a.limit.n > 100)
SiteIdOutside(a) ==
    ~(IsString(a.siteId)
      /\ a.siteId.s \in {"MLB", "MLM", "MLA", "MLU", "MLC", "MCO", "MPE"})
LanguageOutside(a) == ~(IsString(a.language) /\ a.language.s \in {"es", "pt"})
QueryNotString(a) == ~IsString(a.query)

\* C6: a search_documentation request whose limit is outside [1,100], whose
\* siteId or language is outside its enumerated set, or whose query is not a
\* string, ends with an InvalidParams error and issues no token exchange and
\* no API request.
C6_InvalidSearchRejected ==
    \A i \in Invocations :
        (/\ inv[i].pc # "idle"
         /\ inv[i].name = "search_documentation"
         /\ \/ LimitOutside(inv[i].args)
            \/ SiteIdOutside(inv[i].args)
            \/ LanguageOutside(inv[i].args)
            \/ QueryNotString(inv[i].args))
        => RejectedWith(i, "InvalidParams") /\ NoNetwork(i)

\* C6 witness: a search with limit 101 and nothing else wrong was rejected,
\* after an earlier call left a token in the cache.
C6_Witness ==
    \E i \in Invocations :
        /\ inv[i].name = "search_documentation"
        /\ inv[i].args.limit = Num(101)
        /\ ~SiteIdOutside(inv[i].args)
        /\ ~LanguageOutside(inv[i].args)
        /\ ~QueryNotString(inv[i].args)
        /\ RejectedWith(i, "InvalidParams")
        /\ accessToken # NoToken

\* C7: a request naming a tool outside the four registered ones ends with a
\* MethodNotFound error, never a ToolResponse, and issues no token exchange
\* and no API request.
C7_UnknownToolRejected ==
    \A i \in Invocations :
        (/\ inv[i].pc # "idle"
         /\ inv[i].name \notin {"create_customer", "document_types",
                                "payments_methods", "search_documentation"})
        => RejectedWith(i, "MethodNotFound") /\ NoNetwork(i)

\* C7 witness: a request for an unknown tool was rejected.
C7_Witness ==
    \E i \in Invocations :
        /\ inv[i].name = "document_type"
        /\ RejectedWith(i, "MethodNotFound")

\* The token exchange issued last for invocation i failed.
ExchangeFailed(i) ==
    /\ inv[i].exchanges # <<>>
    /\ inv[i].exchanges[Len(inv[i].exchanges)].state = "failed"

\* C8: an invocation whose token exchange failed ends with an InternalError
\* protocol error, not a ToolResponse.
C8_AuthFailureIsInternalError ==
    \A i \in Invocations : ExchangeFailed(i) => RejectedWith(i, "InternalError")

\* C9: a request for a registered tool with arguments satisfying its schema,
\* once the API has answered its call for good (any status, no response, any
\* body), has ended with a ToolResponse; a call that was answered is never
\* left waiting unless it is being retried after a first 401.
C9_HandlersReturnEnvelope ==
    \A i \in Invocations :
        LET r == inv[i]
            n == Len(r.attempts)
        IN
        (/\ r.pc # "idle"
         /\ r.name \in RegisteredTools
         /\ SchemaValid(r.name, r.args))
        => /\ (r.pc = "done" /\ ~ExchangeFailed(i))
                => /\ r.result.kind = "ToolResponse"
                   /\ r.settled.state # "pending"
           /\ r.pc = "sent" => r.settled.state = "pending"
           /\ r.pc = "exchanging" => (n = 0 \/ (n = 1 /\ r.attempts[1].status = 401))

\* C9 witness: document_types was answered 200 with a body that is not an
\* array of records, and returned its fallback text.
C9_Witness ==
    \E i \in Invocations :
        /\ inv[i].name = "document_types"
        /\ inv[i].pc = "done"
        /\ Len(inv[i].attempts) = 1
        /\ inv[i].attempts[1].status = 200
        /\ inv[i].result = ToolResponse("No document types found. Try again later.", FALSE, 0)

\* The results that report a failure or stand in for one.
FailureOrFallback(result) ==
    /\ result.kind = "ToolResponse"
    /\ \/ result.isError
       \/ result.text \in {"No document types found. Try again later.",
                           "No payments found. Try again later."}

\* C10: an invocation that ended with a failure or fallback result has
\* written an error-level entry through the logger.
C10_FailuresLogged ==
    \A i \in Invocations :
        (inv[i].pc = "done" /\ FailureOrFallback(inv[i].result))
        => \E e \in inv[i].logs : e[1] = "error"

---------------------------------------------------------------------------
\* C11: no log or console entry written on any path contains the bearer
\* token, the request headers or the client secret.
C11_NoCredentialLogged ==
    \A i \in Invocations : \A entry \in inv[i].logs : Discloses(entry) = {}

---------------------------------------------------------------------------
\* C12: for a non-empty array of results the digest has one block per result
\* that has a title or a content, in order, with "Untitled" and "No
\* description available" for the missing field; a result missing both adds
\* nothing; and exactly one horizontal rule stands between consecutive blocks.
HasText(result) == Truthy(result.title) \/ Truthy(result.content)

RECURSIVE ExpectedBlocks(_)
ExpectedBlocks(results) ==
    IF results = <<>> THEN <<>>
    ELSE LET result == Head(results)
             block == Block(IF Truthy(result.title) THEN result.title.s ELSE "Untitled",
                            IF Truthy(result.content) THEN result.content.s
                            ELSE "No description available")
         IN  (IF HasText(result) THEN <<block>> ELSE <<>>)
                \o ExpectedBlocks(Tail(results))

C12_OneBlockPerResultOneRuleBetween ==
    digest.formatted =>
        LET expected == ExpectedBlocks(digest.results)
            text == digest.markdown
        IN  /\ Len(text) = IF expected = <<>> THEN 0 ELSE 2 * Len(expected) - 1
            /\ \A k \in 1..Len(text) :
                    IF k % 2 = 1 THEN text[k] = expected[(k + 1) \div 2]
                    ELSE text[k] = Rule

---------------------------------------------------------------------------
\* C13: with calls in flight together the retry state is each call's own: a
\* call is marked as retried exactly when its own first attempt was answered
\* 401, whatever the other calls were answered; it is then re-issued exactly
\* once (one clear, one exchange for the retry), and no call is re-issued more
\* than once or sends more than two attempts.
C13_RetryStatePerCall ==
    \A i \in Invocations :
        LET r == inv[i] IN
        /\ r.isRetry <=> (Len(r.attempts) >= 1 /\ r.attempts[1].status = Unauthorized)
        /\ r.clears = (IF r.isRetry THEN 1 ELSE 0)
        /\ Cardinality(RetryExchanges(r)) = (IF r.isRetry THEN 1 ELSE 0)
        /\ Len(r.attempts) <= 2
        /\ \A k \in DOMAIN r.attempts : r.attempts[k].retry <=> k = 2

\* C13 witness: two calls in flight together, each re-issued after its own 401.
C13_Witness ==
    \E i, j \in Invocations :
        /\ i # j
        /\ inv[i].isRetry /\ inv[i].pc \in {"exchanging", "sent"}
        /\ inv[j].isRetry /\ inv[j].pc \in {"exchanging", "sent"}
        /\ inv[i].attempts[1].status = Unauthorized
        /\ inv[j].attempts[1].status = Unauthorized

---------------------------------------------------------------------------
\* C14: with other calls and token exchanges in flight, the step that handles
\* a call's first 401 empties the cache and, before anything is re-sent,
\* starts an exchange of its own whose token was neither cached nor being
\* fetched before; the step that sends the re-issued attempt sends the token
\* of that exchange.
C14_RetryTokenAfterClear ==
    [][\A i \in Invocations :
        LET r == inv[i]
            q == inv'[i]
        IN  /\ (Answered401(i) /\ ~r.isRetry) =>
                /\ accessToken' = NoToken
                /\ q.pc = "exchanging"
                /\ q.attempts = [r.attempts EXCEPT ![1].status = Unauthorized]
                /\ Len(q.exchanges) = Len(r.exchanges) + 1
                /\ q.exchanges[Len(q.exchanges)].retry
                /\ q.exchanges[Len(q.exchanges)].id > exchangeCount
                /\ q.exchanges[Len(q.exchanges)].id \notin
                    {accessToken} \cup
                    UNION {{inv[j].exchanges[k].id : k \in DOMAIN inv[j].exchanges} :
                                j \in Invocations}
            /\ (Len(r.attempts) = 1 /\ Len(q.attempts) = 2) =>
                /\ r.pc = "exchanging"
                /\ Len(r.exchanges) \in RetryExchanges(r)
                /\ q.attempts[2].token = r.exchanges[Len(r.exchanges)].id
                /\ q.attempts[2].retry
    ]_vars

\* C14 witness: a call has sent its re-issued attempt, and another call
\* obtained a token after the first call's first attempt was sent and before
\* the first call cleared the cache.
C14_Witness ==
    \E i, j \in Invocations :
        /\ i # j
        /\ Len(inv[i].attempts) = 2
        /\ \E k \in DOMAIN inv[j].exchanges :
            /\ inv[j].exchanges[k].state = "ok"
            /\ inv[j].exchanges[k].id > inv[i].attempts[1].token
            /\ inv[j].exchanges[k].id < inv[i].attempts[2].token

---------------------------------------------------------------------------
\* Calls i and j were both sent with the same token and both answered 401.
BothExpired(i, j) ==
    /\ i # j
    /\ Len(inv[i].attempts) >= 1 /\ Len(inv[j].attempts) >= 1
    /\ inv[i].attempts[1].token = inv[j].attempts[1].token
    /\ inv[i].attempts[1].status = Unauthorized
    /\ inv[j].attempts[1].status = Unauthorized

\* Call i returned with its awaited call resolved by its second attempt.
SucceededOnRetry(i) ==
    /\ inv[i].pc = "done"
    /\ inv[i].settled.state = "resolved"
    /\ inv[i].clears = 1
    /\ Len(inv[i].attempts) = 2
    /\ IsSuccess(inv[i].attempts[2].status)

\* C15: when the identity endpoint answers every exchange with a token the
\* API accepts, two calls sent with the same expired token and both answered
\* 401 both eventually return successfully after exactly one retry each; the
\* two make at most two exchanges where one would do, no call fails and no
\* call is sent a third time.
C15_ExpiredTokenRace ==
    /\ [](\A i \in Invocations :
            /\ Len(inv[i].attempts) <= 2
            /\ inv[i].settled.state # "rejected"
            /\ \A j \in Invocations :
                BothExpired(i, j) =>
                    Cardinality(RetryExchanges(inv[i]))
                        + Cardinality(RetryExchanges(inv[j])) <= 2)
    /\ \A i, j \in Invocations :
            BothExpired(i, j) ~> (SucceededOnRetry(i) /\ SucceededOnRetry(j))

\* C15 witness: both calls of such a race have returned successfully, each
\* with a token of its own exchange.
C15_Witness ==
    \E i, j \in Invocations :
        /\ BothExpired(i, j)
        /\ SucceededOnRetry(i) /\ SucceededOnRetry(j)
        /\ inv[i].attempts[2].token # inv[j].attempts[2].token

---------------------------------------------------------------------------
\* The token exchange call i is waiting for fails in this step.
ExchangeFails(i) ==
    /\ inv[i].pc = "exchanging"
    /\ inv'[i].exchanges[Len(inv[i].exchanges)].state = "failed"

\* The step ends call i's attempt: its awaited call rejects, no API request
\* is sent, no exchange is issued and nothing is re-issued.
EndsAttempt(i) ==
    /\ inv'[i].pc = "done"
    /\ inv'[i].settled.state = "rejected"
    /\ inv'[i].attempts = inv[i].attempts
    /\ Len(inv'[i].exchanges) = Len(inv[i].exchanges)
    /\ inv'[i].isRetry = inv[i].isRetry
    /\ inv'[i].clears = inv[i].clears
    /\ exchangeCount' = exchangeCount

\* C16 as stated: a failed token exchange ends the attempt that triggered it
\* (no API request, no re-issue of the exchange or of the call) and leaves
\* the token cache empty.
C16_FailedExchangeLeavesCacheEmpty ==
    [][\A i \in Invocations :
        ExchangeFails(i) => EndsAttempt(i) /\ accessToken' = NoToken]_vars

\* C16 amended: a failed token exchange ends the attempt that triggered it and
\* leaves the token cache as it was; the cache is then empty unless it holds
\* the token of an exchange that another call made meanwhile.
C16_FailedExchangeLeavesCacheUnchanged ==
    [][\A i \in Invocations :
        ExchangeFails(i) =>
            /\ EndsAttempt(i)
            /\ accessToken' = accessToken
            /\ \/ accessToken' = NoToken
               \/ \E j \in Invocations \ {i} : \E k \in DOMAIN inv[j].exchanges :
                    /\ inv[j].exchanges[k].state = "ok"
                    /\ inv[j].exchanges[k].id = accessToken']_vars

\* C16 witness: a call's exchange has failed and the call has returned without
\* an API request, while the cache holds the token another call obtained.
C16_Witness ==
    \E i, j \in Invocations :
        /\ i # j
        /\ ExchangeFailed(i)
        /\ inv[i].pc = "done"
        /\ inv[i].attempts = <<>>
        /\ accessToken # NoToken
        /\ \E k \in DOMAIN inv[j].exchanges : inv[j].exchanges[k].id = accessToken

---------------------------------------------------------------------------
\* The attempt call i has in flight fails in this step with something other
\* than a 401: another status, or no response at all.
FailsWithout401(i) ==
    /\ inv[i].pc = "sent"
    /\ ~IsSuccess(inv'[i].attempts[Len(inv[i].attempts)].status)
    /\ inv'[i].attempts[Len(inv[i].attempts)].status # Unauthorized
    /\ inv'[i] # inv[i]

\* C17: an outbound call that fails with anything other than a 401 reaches
\* its caller as that failure without being re-issued, and handling it leaves
\* the token cache and the call's retry flag as they were.
C17_OtherFailuresPropagateUnchanged ==
    [][\A i \in Invocations :
        FailsWithout401(i) =>
            /\ inv'[i].pc = "done"
            /\ inv'[i].settled.state = "rejected"
            /\ inv'[i].settled.status = inv'[i].attempts[Len(inv[i].attempts)].status
            /\ Len(inv'[i].attempts) = Len(inv[i].attempts)
            /\ inv'[i].exchanges = inv[i].exchanges
            /\ inv'[i].clears = inv[i].clears
            /\ inv'[i].isRetry = inv[i].isRetry
            /\ accessToken' = accessToken
            /\ exchangeCount' = exchangeCount]_vars

\* C17 witness: the cache holds a token, and calls have been rejected by a
\* 500 and by a network failure, one of them on its re-issued attempt.
C17_Witness ==
    \E i, j \in Invocations :
        /\ i # j
        /\ accessToken # NoToken
        /\ inv[i].pc = "done" /\ inv[i].settled.state = "rejected"
        /\ inv[i].settled.status = 500 /\ inv[i].isRetry
        /\ inv[j].pc = "done" /\ inv[j].settled.state = "rejected"
        /\ inv[j].attempts # <<>> /\ inv[j].settled.status = NoResponse

---------------------------------------------------------------------------
\* C18: an invocation whose network call never returns blocks only itself:
\* while it stays suspended, every other invocation waiting for a network
\* call, whether it started before or after, runs to completion unless its
\* own network call never returns either.
C18_HungCallBlocksOnlyItself ==
    \A i, j \in Invocations :
        (i # j /\ inv[j].pc = "hung" /\ inv[i].pc \in {"exchanging", "sent"})
            ~> (inv[i].pc \in {"done", "hung"})

\* C18 witness: an invocation is suspended for good and one that started
\* after it has returned with its API call answered.
C18_Witness ==
    \E i, j \in Invocations :
        /\ j < i
        /\ inv[j].pc = "hung"
        /\ inv[i].pc = "done"
        /\ inv[i].settled.state = "resolved"

---------------------------------------------------------------------------
\* The invocations received so far; they fill the frames in order of arrival.
Received == {i \in Invocations : inv[i].pc # "idle"}

\* C19: every call-tool invocation, also one rejected for an unknown tool
\* name or for invalid arguments, gets its requestId from the one counter,
\* which grows by one per invocation: the n-th invocation received has
\* requestId n, the counter equals the number of invocations received, and
\* no two invocations, one after another or in flight together, share a
\* requestId.
C19_RequestIdsCountInvocations ==
    /\ requestCount = Cardinality(Received)
    /\ \A i \in Received : inv[i].requestId = i
    /\ \A i, j \in Received : i # j => inv[i].requestId # inv[j].requestId

\* C19 witness: an invocation is waiting for the network while a later one
\* was rejected for its tool name or its arguments, each with its own
\* requestId.
C19_Witness ==
    \E i, j \in Invocations :
        /\ inv[i].pc \in {"exchanging", "sent"}
        /\ inv[j].pc = "done"
        /\ inv[j].result.kind = "McpError"
        /\ inv[j].result.code \in {"MethodNotFound", "InvalidParams"}
        /\ inv[j].requestId = inv[i].requestId + 1

=============================================================================
